---- MODULE Spec2Model ----
(***************************************************************************)
(* The process scheduler of bpxe (process/scheduler.rs) driving flow nodes *)
(* (event/end_event.rs and the flow-node contract) as a state machine.     *)
(*                                                                         *)
(* One scheduler instance: a control inbox (mpsc receiver), the flow-node  *)
(* set (FuturesUnordered<FlowNode>) with its ready-to-run queue, the       *)
(* per-record token counters, the nodes' own states, and the two broadcast *)
(* sinks (log, process events) recorded as histories.                      *)
(***************************************************************************)
EXTENDS Integers, Sequences, FiniteSets, TLC

\* ------------------------------------------------------------------ bounds
\* Longest sequence of control requests the callers send.
MaxRequests == 3

\* Join handles the callers may hand over (opaque values).
Handles == {1, 2}

\* --------------------------------------------------------------- utilities
Range(s) == {s[i] : i \in DOMAIN s}

RECURSIVE SeqsUpTo(_, _)
SeqsUpTo(S, n) ==
  IF n = 0 THEN {<<>>}
  ELSE LET shorter == SeqsUpTo(S, n - 1)
       IN shorter \cup {Append(s, x) : s \in {t \in shorter : Len(t) = n - 1}, x \in S}

\* Position (0-based, as Rust's enumerate) of the first x in s, or -1.
RECURSIVE PositionFrom(_, _, _)
PositionFrom(s, x, k) ==
  IF k > Len(s) THEN -1
  ELSE IF s[k] = x THEN k - 1
  ELSE PositionFrom(s, x, k + 1)

Position(s, x) == PositionFrom(s, x, 1)

\* The elements of a finite set of integers in ascending order.
RECURSIVE Ascending(_)
Ascending(S) ==
  IF S = {} THEN <<>>
  ELSE LET m == CHOOSE x \in S : \A y \in S : x <= y
       IN <<m>> \o Ascending(S \ {m})

\* ----------------------------------------------------------------- actions
\* flow_node::Action and the end of a node's stream (the item None).
Flow(indices) == [type |-> "Flow", indices |-> indices]
Probe(indices) == [type |-> "ProbeOutgoingSequenceFlows", indices |-> indices]
Complete == [type |-> "Complete", indices |-> <<>>]
NoAction == [type |-> "None", indices |-> <<>>]

\* ---------------------------------------------------------- process models
\* A flow node element: id, kind tag, ordered incomings and outgoings.  The
\* fields script, hook and ends describe a node kind plugged in behind the
\* flow-node contract ("Custom"): the actions it emits on successive polls,
\* what its handle_outgoing_action does, and whether its stream ends.
FlowNodeElement(id, kind, incomings, outgoings) ==
  [id |-> id, kind |-> kind, incomings |-> incomings, outgoings |-> outgoings,
   script |-> <<>>, hook |-> "identity", ends |-> FALSE]

CustomNode(id, incomings, outgoings, script, hook, ends) ==
  [id |-> id, kind |-> "Custom", incomings |-> incomings, outgoings |-> outgoings,
   script |-> script, hook |-> hook, ends |-> ends]

\* A node kind behind the contract that always has a next action: it emits the
\* actions of its script round and round.
RepeatingNode(id, incomings, outgoings, script) ==
  [id |-> id, kind |-> "Repeating", incomings |-> incomings, outgoings |-> outgoings,
   script |-> script, hook |-> "identity", ends |-> FALSE]

\* A sequence flow: id, source_ref, target_ref and the guard.  cond is
\* "none" (no condition expression), "nocontent" (a condition expression that
\* is no FormalExpression with content), or the expression text.
SequenceFlow(id, source, target, cond) ==
  [id |-> id, source_ref |-> source, target_ref |-> target, cond |-> cond]

StartToEnd(name, cond) ==
  [name |-> name,
   nodes |-> << FlowNodeElement("start", "StartEvent", <<>>, <<"s1">>),
                FlowNodeElement("end", "EndEvent", <<"s1">>, <<>>) >>,
   flows |-> { SequenceFlow("s1", "start", "end", cond) }]

TwoStarts ==
  [name |-> "TwoStarts",
   nodes |-> << FlowNodeElement("start1", "StartEvent", <<>>, <<"f1">>),
                FlowNodeElement("start2", "StartEvent", <<>>, <<"f2">>),
                FlowNodeElement("end", "EndEvent", <<"f1", "f2">>, <<>>) >>,
   flows |-> { SequenceFlow("f1", "start1", "end", "none"),
               SequenceFlow("f2", "start2", "end", "none") }]

EndOnly ==
  [name |-> "EndOnly",
   nodes |-> << FlowNodeElement("end", "EndEvent", <<>>, <<>>) >>,
   flows |-> {}]

StartOnly ==
  [name |-> "StartOnly",
   nodes |-> << FlowNodeElement("start", "StartEvent", <<>>, <<>>) >>,
   flows |-> {}]

\* A node whose outgoing sequence flow targets the node itself.
SelfLoop ==
  [name |-> "SelfLoop",
   nodes |-> << CustomNode("a", <<"loop">>, <<"loop">>,
                           << Flow(<<0>>), Complete >>, "identity", TRUE) >>,
   flows |-> { SequenceFlow("loop", "a", "a", "none") }]

\* a -> b -> a: b has already produced an action when a's flow reaches it.
Cycle ==
  [name |-> "Cycle",
   nodes |-> << CustomNode("a", <<"ba">>, <<"ab">>, << Flow(<<0>>) >>, "identity", FALSE),
                CustomNode("b", <<"ab">>, <<"ba">>, << Complete, Flow(<<0>>) >>,
                           "identity", FALSE) >>,
   flows |-> { SequenceFlow("ab", "a", "b", "none"),
               SequenceFlow("ba", "b", "a", "true") }]

\* One node firing two edges into the same end event, one edge into a
\* second end event, guards of every kind, and an outgoing ("e4") that names
\* no sequence flow of the model.
FanOut(script) ==
  [name |-> "FanOut",
   nodes |-> << CustomNode("g", <<>>, <<"e0", "e1", "e2", "e3", "e4">>, script, "identity", TRUE),
                FlowNodeElement("end", "EndEvent", <<"e1", "e0", "e3">>, <<>>),
                FlowNodeElement("other", "EndEvent", <<"e2">>, <<>>) >>,
   flows |-> { SequenceFlow("e0", "g", "end", "none"),
               SequenceFlow("e1", "g", "end", "true"),
               SequenceFlow("e2", "g", "other", "false"),
               SequenceFlow("e3", "g", "end", "bad") }]

\* Two predecessors p and q of x, each with its own splice hook.
Hooks(hookP, hookQ, script) ==
  [name |-> "Hooks",
   nodes |-> << CustomNode("p", <<>>, <<"px">>, <<>>, hookP, FALSE),
                CustomNode("q", <<>>, <<"spare", "qx">>, <<>>, hookQ, FALSE),
                CustomNode("x", <<"px", "qx", "gone">>, <<"xe">>, script, "identity", FALSE),
                FlowNodeElement("end", "EndEvent", <<"xe", "spare">>, <<>>) >>,
   flows |-> { SequenceFlow("px", "p", "x", "none"),
               SequenceFlow("qx", "q", "x", "none"),
               SequenceFlow("spare", "q", "end", "none"),
               SequenceFlow("xe", "x", "end", "nocontent") }]

\* Two node records carrying the same id, both targeted by one edge.
SameId ==
  [name |-> "SameId",
   nodes |-> << FlowNodeElement("start", "StartEvent", <<>>, <<"s1">>),
                FlowNodeElement("end", "EndEvent", <<"s1">>, <<>>),
                FlowNodeElement("end", "EndEvent", <<"other", "s1">>, <<>>) >>,
   flows |-> { SequenceFlow("s1", "start", "end", "none") }]

\* A node that always has an action ready, next to an end event it never
\* flows into.
Busy ==
  [name |-> "Busy",
   nodes |-> << RepeatingNode("busy", <<>>, <<"b1">>, << Probe(<<0>>), Probe(<<>>) >>),
                FlowNodeElement("end", "EndEvent", <<"b1">>, <<>>) >>,
   flows |-> { SequenceFlow("b1", "busy", "end", "true") }]

\* The splice hooks of p and of q, and what x emits.
HookCases ==
  { << "identity", "identity" >>, << "drop", "identity" >>, << "identity", "drop" >>,
    << "complete", "drop" >>, << "identity", "complete" >>, << "none", "identity" >> }

Processes ==
  { StartToEnd("Minimal", "none"), StartToEnd("GuardTrue", "true"),
    StartToEnd("GuardFalse", "false"), StartToEnd("GuardError", "bad"),
    TwoStarts, EndOnly, StartOnly, SelfLoop, Cycle, SameId, Busy,
    FanOut(<< Flow(<<0, 1>>), Complete >>),
    FanOut(<< Flow(<<2, 3, 1>>), Probe(<<3, 2, 0, 4>>) >>) }
  \cup { Hooks(h[1], h[2], << Flow(<<0>>), Probe(<<0>>) >>) : h \in HookCases }

\* --------------------------------------------------------------- variables
VARIABLES
  process,      \* the process element (read-only during execution)
  receiver,     \* the control inbox: requests sent and not yet received
  closed,       \* every sender of the control inbox is gone
  join_handle,  \* run's local join_handle (0 is None)
  running,      \* the run loop has not returned
  flow_nodes,   \* the node records held in the FuturesUnordered
  records,      \* how many records of each node the FuturesUnordered holds
  ready,        \* records queued for a poll (newly pushed or woken)
  tokens,       \* FlowNode.tokens of each record
  node,         \* each flow node's own state
  log,          \* everything sent to log_broadcast, in order
  events,       \* everything sent to event_broadcast, in order
  replies,      \* everything sent on reply channels, in order
  handled,      \* the requests the control branch has received, in order
  last,         \* what the latest loop turn did
  snapshot      \* the latest set_state call on a node, and how many were made

vars == << process, receiver, closed, join_handle, running, flow_nodes, records, ready,
           tokens, node, log, events, replies, handled, last, snapshot >>

Nodes == 1..Len(process.nodes)

\* ---------------------------------------------------------------- requests
StartRequest == [type |-> "Start", handle |-> 0]
TerminateRequest == [type |-> "Terminate", handle |-> 0]
JoinHandleRequest(h) == [type |-> "JoinHandle", handle |-> h]

\* Join handles are opaque: a script is taken up to renaming them, so the
\* handles appear in ascending order of first use.
RECURSIVE HandlesInOrder(_, _, _)
HandlesInOrder(s, k, used) ==
  IF k > Len(s) THEN TRUE
  ELSE IF s[k].type # "JoinHandle" \/ s[k].handle <= used
       THEN HandlesInOrder(s, k + 1, used)
       ELSE s[k].handle = used + 1 /\ HandlesInOrder(s, k + 1, used + 1)

\* What callers can have sent: any requests, nothing after a Terminate (the
\* receiver is dropped when the loop returns).
Scripts ==
  LET before == SeqsUpTo({StartRequest} \cup {JoinHandleRequest(h) : h \in Handles},
                         MaxRequests)
      all == before \cup {Append(s, TerminateRequest) :
                            s \in {t \in before : Len(t) < MaxRequests}}
  IN {s \in all : HandlesInOrder(s, 1, 0)}

\* ------------------------------------------------------------- log entries
FlowNodeIncoming(n, index) == [type |-> "FlowNodeIncoming", node |-> n, incoming_index |-> index]
FlowNodeCompleted(n) == [type |-> "FlowNodeCompleted", node |-> n, incoming_index |-> -1]
ExpressionError == [type |-> "ExpressionError", node |-> 0, incoming_index |-> -1]
Done == [type |-> "Done", node |-> 0, incoming_index |-> -1]

\* A call the scheduler makes on a flow node during a turn.
Call(n, op, arg, edge, flag, action) ==
  [node |-> n, op |-> op, arg |-> arg, edge |-> edge, flag |-> flag, action |-> action]

\* ------------------------------------------------------------ flow nodes
\* A node's own state: its state tag, whether it holds a waker of its current
\* poll, how many actions it has emitted, and whether its subscription holds
\* an unread Start event.
NewNode(kind) ==
  [state |-> IF kind \in {"Custom", "Repeating"} THEN "Active" ELSE "Ready",
   waker |-> FALSE, pos |-> 0, unread |-> FALSE]

Pending(st) == [pending |-> TRUE, st |-> st, item |-> NoAction, events |-> <<>>]
Item(st, action, evs) == [pending |-> FALSE, st |-> st, item |-> action, events |-> evs]

\* An incoming that wakes the end event without completing it.
EndEventIncomingWakeOnly(st) == [st EXCEPT !.waker = FALSE]

\* EndEvent::incoming: any incoming completes the end event and wakes it.
EndEventIncoming(st) == [st EXCEPT !.state = "Complete", !.waker = FALSE]

\* An end event that completes on its first poll, incoming or not.
EndEventPollNextEager(st) ==
  CASE st.state \in {"Ready", "Complete"} ->
         Item([st EXCEPT !.state = "Done"], Complete, <<"End">>)
    [] OTHER -> Pending(st)

\* <EndEvent as Stream>::poll_next
EndEventPollNext(st) ==
  CASE st.state = "Ready" -> Pending([st EXCEPT !.waker = TRUE])
    [] st.state = "Complete" -> Item([st EXCEPT !.state = "Done"], Complete, <<"End">>)
    [] OTHER -> Pending(st)

\* A set_state that accepts the value and keeps the old state.
EndEventSetStateKeeps(st, value) ==
  IF value.variant = "EndEvent"
  THEN [result |-> "Ok", st |-> st]
  ELSE [result |-> "InvalidVariant", st |-> st]

\* A set_state that takes the value of any variant.
EndEventSetStateAnyVariant(st, value) ==
  [result |-> "Ok", st |-> [st EXCEPT !.state = value.state]]

\* EndEvent::get_state / set_state over flow_node::State values
\* [variant, state].
EndEventGetState(st) == [variant |-> "EndEvent", state |-> st.state]

EndEventSetState(st, value) ==
  IF value.variant = "EndEvent"
  THEN [result |-> "Ok", st |-> [st EXCEPT !.state = value.state]]
  ELSE [result |-> "InvalidVariant", st |-> st]

\* StartEvent: Ready -> Complete on the first Start event of its subscription,
\* then Flow over all its outgoings, then Complete, then the end of the stream.
StartEventOnStart(st) ==
  IF st.state = "Ready" THEN [st EXCEPT !.unread = TRUE, !.waker = FALSE] ELSE st

StartEventPollNext(el, st) ==
  CASE st.state = "Ready" /\ ~st.unread -> Pending([st EXCEPT !.waker = TRUE])
    [] st.state = "Ready" /\ st.unread ->
         Item([st EXCEPT !.state = "Complete", !.unread = FALSE, !.waker = FALSE],
              Flow([i \in 1..Len(el.outgoings) |-> i - 1]), <<>>)
    [] st.state = "Complete" -> Item([st EXCEPT !.state = "Done"], Complete, <<>>)
    [] OTHER -> Item(st, NoAction, <<>>)

\* A node kind behind the contract: emits its script, one action per poll,
\* then ends its stream or stays pending.
CustomPollNext(el, st) ==
  IF st.pos < Len(el.script)
  THEN Item([st EXCEPT !.pos = @ + 1], el.script[st.pos + 1], <<>>)
  ELSE IF el.ends THEN Item(st, NoAction, <<>>) ELSE Pending(st)

\* A node that is never out of actions.
RepeatingPollNext(el, st) ==
  Item([st EXCEPT !.pos = (@ + 1) % Len(el.script)], el.script[st.pos + 1], <<>>)

PollNext(el, st) ==
  CASE el.kind = "EndEvent" -> EndEventPollNext(st)
    [] el.kind = "StartEvent" -> StartEventPollNext(el, st)
    [] el.kind = "Repeating" -> RepeatingPollNext(el, st)
    [] OTHER -> CustomPollNext(el, st)

\* FlowNode::incoming: the trait's default does nothing.
NodeIncoming(el, st) == IF el.kind = "EndEvent" THEN EndEventIncoming(st) ELSE st

\* Whether incoming() wakes the node's pending poll.
IncomingWakes(el, st) == el.kind = "EndEvent" /\ st.waker

\* FlowNode::handle_outgoing_action, Option<Option<Action>> as [some, action]:
\* the default is the identity.
HandleOutgoingAction(el, index, action) ==
  CASE el.hook = "drop" -> [some |-> FALSE, action |-> action]
    [] el.hook = "complete" -> [some |-> TRUE, action |-> Complete]
    [] el.hook = "none" -> [some |-> TRUE, action |-> NoAction]
    [] OTHER -> [some |-> TRUE, action |-> action]

\* -------------------------------------------------------------- scheduler
\* Scheduler::new: one record per flow element of a known node kind, tokens 0,
\* every record newly pushed (so due for its first poll).
NewFlowNodes(p) == 1..Len(p.nodes)

\* element.find_by_id(id) downcast to SequenceFlow: the flows with that id.
FindSequenceFlow(p, id) == {f \in p.flows : f.id = id}

\* ExpressionEvaluator::eval_expr on a condition's content: Ok(bool) or Err.
EvalExpr(content) ==
  CASE content = "true" -> [ok |-> TRUE, result |-> TRUE]
    [] content = "false" -> [ok |-> TRUE, result |-> FALSE]
    [] OTHER -> [ok |-> FALSE, result |-> FALSE]

\* A probe that logs a failed evaluation and lets the flow through.
ProbeSequenceFlowErrorPasses(seq_flow) ==
  IF seq_flow.cond \notin {"none", "nocontent"}
  THEN LET r == EvalExpr(seq_flow.cond)
       IN IF r.ok THEN [success |-> r.result, logged |-> <<>>]
          ELSE [success |-> TRUE, logged |-> << ExpressionError >>]
  ELSE [success |-> TRUE, logged |-> <<>>]

\* probe_sequence_flow: the guard's result and what it sends to the log.
ProbeSequenceFlow(seq_flow) ==
  IF seq_flow.cond \notin {"none", "nocontent"}
  THEN LET r == EvalExpr(seq_flow.cond)
       IN IF r.ok THEN [success |-> r.result, logged |-> <<>>]
          ELSE [success |-> FALSE, logged |-> << ExpressionError >>]
  ELSE [success |-> TRUE, logged |-> <<>>]

\* The records a Flow over seq_flow is delivered to: every record of the set
\* whose id is the target_ref (iter_mut over the FuturesUnordered, which does
\* not hold the record whose item is being handled).
FlowTargets(p, set, seq_flow) ==
  Ascending({t \in set : p.nodes[t].id = seq_flow.target_ref})

\* The Flow branch's token increment for one delivery.
TokensAfterFlow(old, indices) == old + Len(indices)

\* The Flow branch's body for one target record: the incoming index, the log
\* entry, the token increment, tokens() and incoming().
DeliverFlow(ctx, p, t, seq_flow, indices) ==
  LET index == Position(p.nodes[t].incomings, seq_flow.id)
      el == p.nodes[t]
      new_tokens == TokensAfterFlow(ctx.tokens[t], indices)
  IN IF index < 0 THEN ctx
     ELSE [ctx EXCEPT
             !.log = Append(@, FlowNodeIncoming(t, index)),
             !.tokens[t] = new_tokens,
             !.calls = @ \o << Call(t, "tokens", new_tokens, seq_flow.id, TRUE, NoAction),
                               Call(t, "incoming", index, seq_flow.id, TRUE, NoAction) >>,
             !.node[t] = NodeIncoming(el, ctx.node[t]),
             !.ready = IF IncomingWakes(el, ctx.node[t]) THEN @ \cup {t} ELSE @]

RECURSIVE DeliverFlowAll(_, _, _, _, _, _)
DeliverFlowAll(ctx, p, targets, k, seq_flow, indices) ==
  IF k > Len(targets) THEN ctx
  ELSE DeliverFlowAll(DeliverFlow(ctx, p, targets[k], seq_flow, indices),
                      p, targets, k + 1, seq_flow, indices)

\* One iteration of the Flow branch's loop over indices.
FlowIndex(ctx, p, n, index, indices) ==
  LET found == FindSequenceFlow(p, p.nodes[n].outgoings[index + 1])
  IN IF found = {} THEN ctx
     ELSE LET seq_flow == CHOOSE f \in found : TRUE
              probe == ProbeSequenceFlow(seq_flow)
              probed == [ctx EXCEPT !.log = @ \o probe.logged]
          IN IF probe.success
             THEN DeliverFlowAll(probed, p, FlowTargets(p, ctx.flow_nodes, seq_flow),
                                 1, seq_flow, indices)
             ELSE probed

RECURSIVE FlowIndices(_, _, _, _, _)
FlowIndices(ctx, p, n, indices, k) ==
  IF k > Len(indices) THEN ctx
  ELSE FlowIndices(FlowIndex(ctx, p, n, indices[k], indices), p, n, indices, k + 1)

\* A probe iteration that reports success whatever the guard says.
ProbeIndexAlwaysSuccess(ctx, p, n, index) ==
  LET found == FindSequenceFlow(p, p.nodes[n].outgoings[index + 1])
  IN IF found = {} THEN ctx
     ELSE LET seq_flow == CHOOSE f \in found : TRUE
              probe == ProbeSequenceFlow(seq_flow)
          IN [ctx EXCEPT
                !.log = @ \o probe.logged,
                !.calls = Append(@, Call(n, "sequence_flow", index, seq_flow.id,
                                         TRUE, NoAction))]

\* One iteration of the ProbeOutgoingSequenceFlows branch's loop.
ProbeIndex(ctx, p, n, index) ==
  LET found == FindSequenceFlow(p, p.nodes[n].outgoings[index + 1])
  IN IF found = {} THEN ctx
     ELSE LET seq_flow == CHOOSE f \in found : TRUE
              probe == ProbeSequenceFlow(seq_flow)
          IN [ctx EXCEPT
                !.log = @ \o probe.logged,
                !.calls = Append(@, Call(n, "sequence_flow", index, seq_flow.id,
                                         probe.success, NoAction))]

RECURSIVE ProbeIndices(_, _, _, _, _)
ProbeIndices(ctx, p, n, indices, k) ==
  IF k > Len(indices) THEN ctx
  ELSE ProbeIndices(ProbeIndex(ctx, p, n, indices[k]), p, n, indices, k + 1)

\* Control::Proceed(action) and Control::Drop.
Proceed(action, calls) == [drop |-> FALSE, action |-> action, calls |-> calls]
Drop(action, calls) == [drop |-> TRUE, action |-> action, calls |-> calls]

\* A fold step that consults the next predecessor even after a drop.
SpliceStepAfterDrop(control, p, set, incoming) ==
  LET matching == {m \in set : incoming \in Range(p.nodes[m].outgoings)}
  IN IF matching = {} THEN control
     ELSE LET m == CHOOSE x \in matching : \A y \in matching : x <= y
              index == Position(p.nodes[m].outgoings, incoming)
              r == HandleOutgoingAction(p.nodes[m], index, control.action)
              calls == Append(control.calls,
                              Call(m, "handle_outgoing_action", index, incoming,
                                   r.some, control.action))
          IN IF r.some THEN Proceed(r.action, calls)
             ELSE Drop(control.action, calls)

\* A fold step that calls the hook and proceeds with the action as it was.
SpliceStepIgnoresHook(control, p, set, incoming) ==
  IF control.drop THEN control
  ELSE LET matching == {m \in set : incoming \in Range(p.nodes[m].outgoings)}
       IN IF matching = {} THEN control
          ELSE LET m == CHOOSE x \in matching : \A y \in matching : x <= y
                   index == Position(p.nodes[m].outgoings, incoming)
                   r == HandleOutgoingAction(p.nodes[m], index, control.action)
                   calls == Append(control.calls,
                                   Call(m, "handle_outgoing_action", index, incoming,
                                        r.some, control.action))
               IN IF r.some THEN Proceed(control.action, calls)
                  ELSE Drop(control.action, calls)

\* One step of the fold over the producing node's incomings: the first record
\* of the set that lists the incoming among its outgoings has its hook called.
SpliceStep(control, p, set, incoming) ==
  IF control.drop THEN control
  ELSE LET matching == {m \in set : incoming \in Range(p.nodes[m].outgoings)}
       IN IF matching = {} THEN control
          ELSE LET m == CHOOSE x \in matching : \A y \in matching : x <= y
                   index == Position(p.nodes[m].outgoings, incoming)
                   r == HandleOutgoingAction(p.nodes[m], index, control.action)
                   calls == Append(control.calls,
                                   Call(m, "handle_outgoing_action", index, incoming,
                                        r.some, control.action))
               IN IF r.some THEN Proceed(r.action, calls)
                  ELSE Drop(control.action, calls)

RECURSIVE SpliceFold(_, _, _, _, _)
SpliceFold(control, p, set, incomings, k) ==
  IF k > Len(incomings) THEN control
  ELSE SpliceFold(SpliceStep(control, p, set, incomings[k]), p, set, incomings, k + 1)

\* An end of stream that logs Done whatever the set holds.
EndOfStreamAlwaysDone(ctx) == [ctx EXCEPT !.log = Append(@, Done)]

\* Control::Proceed(None): Done is logged if the set is empty.
EndOfStream(ctx) ==
  IF ctx.flow_nodes = {} THEN [ctx EXCEPT !.log = Append(@, Done)] ELSE ctx

\* The match on control: the effect of the (possibly rewritten) action.
ApplyControl(ctx, p, n, control) ==
  CASE control.drop -> ctx
    [] control.action.type = "ProbeOutgoingSequenceFlows" ->
         ProbeIndices(ctx, p, n, control.action.indices, 1)
    [] control.action.type = "Flow" ->
         FlowIndices(ctx, p, n, control.action.indices, 1)
    [] control.action.type = "Complete" ->
         [ctx EXCEPT !.log = Append(@, FlowNodeCompleted(n))]
    [] OTHER -> EndOfStream(ctx)

\* A turn that always reaches "Reschedule the flow node".
ReschedulesAlways(control) == TRUE

\* Whether the turn reaches "Reschedule the flow node": Proceed(None) continues.
Reschedules(control) == control.drop \/ control.action.type # "None"

\* A push of a fresh record, its tokens 0 as in Scheduler::new.
RescheduleFresh(ctx, n, next_tokens) ==
  [ctx EXCEPT !.flow_nodes = @ \cup {n}, !.ready = @ \cup {n}, !.tokens[n] = 0]

\* self.flow_nodes.push(FlowNode{id, future, tokens}) with the item's tokens.
Reschedule(ctx, n, next_tokens) ==
  [ctx EXCEPT !.flow_nodes = @ \cup {n}, !.ready = @ \cup {n}, !.tokens[n] = next_tokens]

\* ------------------------------------------------------------ the run loop
\* What a loop turn did: the select branch taken, the request received or the
\* producing node with its item, the control the fold ended with, the calls
\* made on flow nodes, and whether the producing node was pushed back.
Turn(branch, request, n, item, control, rescheduled) ==
  [branch |-> branch, request |-> request, node |-> n, item |-> item,
   drop |-> control.drop, action |-> control.action, calls |-> control.calls,
   rescheduled |-> rescheduled]

NoRequest == [type |-> "None", handle |-> 0]
NoControl == Proceed(NoAction, <<>>)

\* A set_state call: the node, the flow_node::State given, the Result, the
\* node's state before the call, and the number of calls so far.
SetStateCall(n, value, result, before, count) ==
  [op |-> "set_state", node |-> n, value |-> value, result |-> result,
   before |-> before, count |-> count]

NoSnapshot ==
  [op |-> "none", node |-> 0, value |-> [variant |-> "None", state |-> "None"],
   result |-> "None", before |-> "None", count |-> 0]

Init ==
  /\ process \in Processes
  /\ receiver \in Scripts
  /\ closed = FALSE
  /\ join_handle = 0
  /\ running = TRUE
  /\ flow_nodes = NewFlowNodes(process)
  /\ records = [n \in NewFlowNodes(process) |-> 1]
  /\ ready = NewFlowNodes(process)
  /\ tokens = [n \in NewFlowNodes(process) |-> 0]
  /\ node = [n \in NewFlowNodes(process) |-> NewNode(process.nodes[n].kind)]
  /\ log = <<>>
  /\ events = <<>>
  /\ replies = <<>>
  /\ handled = <<>>
  /\ last = Turn("none", NoRequest, 0, NoAction, NoControl, FALSE)
  /\ snapshot = NoSnapshot

\* The callers drop every sender of the control inbox.
DropSenders ==
  /\ running /\ ~closed /\ receiver = <<>>
  /\ closed' = TRUE
  /\ UNCHANGED << snapshot, records, process, receiver, join_handle, running, flow_nodes, ready, tokens,
                  node, log, events, replies, handled, last >>

\* Some(Request::JoinHandle(handle)) => join_handle = Some(handle)
RecvJoinHandle ==
  /\ running /\ receiver # <<>> /\ Head(receiver).type = "JoinHandle"
  /\ join_handle' = Head(receiver).handle
  /\ receiver' = Tail(receiver)
  /\ handled' = Append(handled, Head(receiver))
  /\ last' = Turn("control", Head(receiver), 0, NoAction, NoControl, FALSE)
  /\ UNCHANGED << snapshot, records, process, closed, running, flow_nodes, ready, tokens, node, log,
                  events, replies >>

\* A Terminate reply that never carries the handle.
TerminateReplyNone(handle) == [to |-> "Terminate", value |-> "None", handle |-> 0]

\* What Terminate sends on its reply channel: join_handle.take().
TerminateReply(handle) ==
  [to |-> "Terminate", value |-> IF handle = 0 THEN "None" ELSE "Some", handle |-> handle]

\* What Start sends on its reply channel: Ok(()) or Err(NoStartEvent).
StartReply(value) == [to |-> "Start", value |-> value, handle |-> 0]

\* A Terminate that is answered without returning from the loop.
RecvTerminateStays ==
  /\ running /\ receiver # <<>> /\ Head(receiver).type = "Terminate"
  /\ replies' = Append(replies, TerminateReply(join_handle))
  /\ join_handle' = 0
  /\ receiver' = Tail(receiver)
  /\ handled' = Append(handled, Head(receiver))
  /\ last' = Turn("control", Head(receiver), 0, NoAction, NoControl, FALSE)
  /\ UNCHANGED << snapshot, records, process, closed, running, flow_nodes, ready, tokens, node, log,
                  events >>

\* Some(Request::Terminate(sender)) => { sender.send(join_handle.take()); return }
RecvTerminate ==
  /\ running /\ receiver # <<>> /\ Head(receiver).type = "Terminate"
  /\ replies' = Append(replies, TerminateReply(join_handle))
  /\ join_handle' = 0
  /\ running' = FALSE
  /\ receiver' = Tail(receiver)
  /\ handled' = Append(handled, Head(receiver))
  /\ last' = Turn("control", Head(receiver), 0, NoAction, NoControl, FALSE)
  /\ UNCHANGED << snapshot, records, process, closed, flow_nodes, ready, tokens, node, log, events >>

\* Scheduler::start's test: some flow element is a StartEvent.
HasStartEvent(p) == \E i \in 1..Len(p.nodes) : p.nodes[i].kind = "StartEvent"

\* A start without the gate: always broadcast and answered Ok.
StartOutcomeNoGate(p) == [reply |-> "Ok", events |-> << "Start" >>]

\* A start that broadcasts the Start event twice.
StartOutcomeTwice(p) ==
  IF ~HasStartEvent(p)
  THEN [reply |-> "NoStartEvent", events |-> <<>>]
  ELSE [reply |-> "Ok", events |-> << "Start", "Start" >>]

\* Scheduler::start: the reply and the process events broadcast.
StartOutcome(p) ==
  IF ~HasStartEvent(p)
  THEN [reply |-> "NoStartEvent", events |-> <<>>]
  ELSE [reply |-> "Ok", events |-> << "Start" >>]

\* The start events' subscriptions receive a broadcast Start.
DeliverStart(p, set, nodes) ==
  [n \in DOMAIN nodes |->
     IF n \in set /\ p.nodes[n].kind = "StartEvent"
     THEN StartEventOnStart(nodes[n]) ELSE nodes[n]]

WokenByStart(p, set, nodes) ==
  {n \in set : p.nodes[n].kind = "StartEvent" /\ nodes[n].state = "Ready" /\ nodes[n].waker}

\* Some(Request::Start(sender)) => self.start(sender)
RecvStart ==
  /\ running /\ receiver # <<>> /\ Head(receiver).type = "Start"
  /\ LET out == StartOutcome(process)
     IN /\ events' = events \o out.events
        /\ replies' = Append(replies, StartReply(out.reply))
        /\ IF out.events # <<>>
           THEN /\ node' = DeliverStart(process, flow_nodes, node)
                /\ ready' = ready \cup WokenByStart(process, flow_nodes, node)
           ELSE UNCHANGED << node, ready >>
  /\ receiver' = Tail(receiver)
  /\ handled' = Append(handled, Head(receiver))
  /\ last' = Turn("control", Head(receiver), 0, NoAction, NoControl, FALSE)
  /\ UNCHANGED << snapshot, records, process, closed, join_handle, running, flow_nodes, tokens, log >>

\* A closed inbox that ends the loop.
RecvNoneExits ==
  /\ running /\ closed /\ receiver = <<>>
  /\ running' = FALSE
  /\ last' = Turn("closed", NoRequest, 0, NoAction, NoControl, FALSE)
  /\ UNCHANGED << snapshot, records, process, receiver, closed, join_handle, flow_nodes, ready,
                  tokens, node, log, events, replies, handled >>

\* recv() on a closed and empty inbox yields None => {}
RecvNone ==
  /\ running /\ closed /\ receiver = <<>>
  /\ last' = Turn("closed", NoRequest, 0, NoAction, NoControl, FALSE)
  /\ UNCHANGED << snapshot, records, process, receiver, closed, join_handle, running, flow_nodes, ready,
                  tokens, node, log, events, replies, handled >>

\* A next() that yields a record and leaves it in the set.
TakeRecordKeeps(count) == count

\* self.flow_nodes.next() yields a completed record: it is out of the set.
TakeRecord(count) == count - 1

\* self.flow_nodes.push(..) adds a record.
PushRecord(count) == count + 1

\* A poll of the flow-node set in which node n's poll_next returns Pending.
PollPending(n) ==
  /\ running /\ n \in ready
  /\ LET r == PollNext(process.nodes[n], node[n])
     IN /\ r.pending
        /\ node' = [node EXCEPT ![n] = r.st]
  /\ ready' = ready \ {n}
  /\ UNCHANGED << snapshot, records, process, receiver, closed, join_handle, running, flow_nodes, tokens,
                  log, events, replies, handled, last >>

\* The data branch: node n's record completes with an item, the fold over its
\* incomings, the match on control, and the reschedule.
DataBranch(n) ==
  /\ running /\ n \in ready
  /\ LET r == PollNext(process.nodes[n], node[n])
         set == flow_nodes \ {n}
         control == SpliceFold(Proceed(r.item, <<>>), process, set,
                               process.nodes[n].incomings, 1)
         ctx0 == [flow_nodes |-> set, ready |-> ready \ {n}, tokens |-> tokens,
                  node |-> [node EXCEPT ![n] = r.st], log |-> log,
                  calls |-> control.calls]
         ctx1 == ApplyControl(ctx0, process, n, control)
         ctx2 == IF Reschedules(control) THEN Reschedule(ctx1, n, tokens[n]) ELSE ctx1
     IN /\ ~r.pending
        /\ events' = events \o r.events
        /\ flow_nodes' = ctx2.flow_nodes
        /\ records' = [records EXCEPT
                         ![n] = IF Reschedules(control)
                                THEN PushRecord(TakeRecord(@)) ELSE TakeRecord(@)]
        /\ ready' = ctx2.ready
        /\ tokens' = ctx2.tokens
        /\ node' = ctx2.node
        /\ log' = ctx2.log
        /\ last' = Turn("data", NoRequest, n, r.item,
                        [control EXCEPT !.calls = ctx2.calls], Reschedules(control))
  /\ UNCHANGED << snapshot, process, receiver, closed, join_handle, running, replies, handled >>

\* The data branch on an empty set: next() yields None and nothing happens.
EmptySet ==
  /\ running /\ flow_nodes = {}
  /\ last' = Turn("empty", NoRequest, 0, NoAction, NoControl, FALSE)
  /\ UNCHANGED << snapshot, records, process, receiver, closed, join_handle, running, flow_nodes, ready,
                  tokens, node, log, events, replies, handled >>

MaxNodes == 4

Next ==
  \/ DropSenders
  \/ RecvJoinHandle
  \/ RecvTerminate
  \/ RecvStart
  \/ RecvNone
  \/ EmptySet
  \/ \E n \in 1..MaxNodes : PollPending(n)
  \/ \E n \in 1..MaxNodes : DataBranch(n)

Spec == Init /\ [][Next]_vars

\* The runs of the processes made of start and end events only.
EventProcesses ==
  { StartToEnd("Minimal", "none"), StartToEnd("GuardTrue", "true"),
    StartToEnd("GuardFalse", "false"), StartToEnd("GuardError", "bad"),
    StartOnly, EndOnly }

\* ---------------------------------------------------------------- snapshots
\* Most set_state calls made on the nodes of one run.
MaxSetStates == 1

\* The flow_node::State values: the end event's three states, and a value of
\* another node kind's variant.
StateValues ==
  {[variant |-> "EndEvent", state |-> st] : st \in {"Ready", "Complete", "Done"}}
    \cup {[variant |-> "StartEvent", state |-> "Ready"]}

\* set_state(value) on the end event n, between two loop turns.
SetState(n, value) ==
  /\ running /\ snapshot.count < MaxSetStates
  /\ n \in DOMAIN node /\ process.nodes[n].kind = "EndEvent"
  /\ LET r == EndEventSetState(node[n], value)
     IN /\ node' = [node EXCEPT ![n] = r.st]
        /\ snapshot' = SetStateCall(n, value, r.result, node[n].state, snapshot.count + 1)
  /\ UNCHANGED << process, receiver, closed, join_handle, running, flow_nodes, records,
                  ready, tokens, log, events, replies, handled, last >>

\* Snapshots are taken of the runs of these processes.
SnapshotInit == Init /\ process \in { StartToEnd("Minimal", "none"), StartOnly, EndOnly }

SnapshotNext == Next \/ \E n \in 1..MaxNodes : \E value \in StateValues : SetState(n, value)

SnapshotSpec == SnapshotInit /\ [][SnapshotNext]_vars

\* The loop yields and selects between its two branches each turn, and the
\* FuturesUnordered polls every queued record: a request waiting in the inbox
\* is eventually received and a queued node is eventually polled.
ControlBranch == RecvJoinHandle \/ RecvTerminate \/ RecvStart \/ RecvNone

Poll(n) == PollPending(n) \/ DataBranch(n)

FairInit == Init /\ process \in EventProcesses

FairSpec ==
  /\ FairInit
  /\ [][Next]_vars
  /\ WF_vars(ControlBranch)
  /\ \A n \in 1..MaxNodes : WF_vars(Poll(n))

\* Node n's record is queued for a poll and the loop is running: exactly the
\* states in which a Poll(n) step is possible.
Queued(n) == running /\ n \in ready

\* Weak fairness of Poll(n), written out with Queued(n) as its enabling
\* condition: a record that stays queued is eventually polled.
PollFairness(n) == []<>(~Queued(n)) \/ []<><<Poll(n)>>_vars

\* A script that holds exactly one Start request.
OneStart(script) == Cardinality({i \in DOMAIN script : script[i] = StartRequest}) = 1

\* The fair runs of the event processes, of a process with a node firing
\* several guarded edges, and of the two-starts process sent one Start.
LiveInit ==
  /\ Init
  /\ \/ process \in EventProcesses \cup { FanOut(<< Flow(<<0, 1>>), Complete >>), Busy }
     \/ process = TwoStarts /\ OneStart(receiver)

LiveSpec ==
  /\ LiveInit
  /\ [][Next]_vars
  /\ WF_vars(ControlBranch)
  /\ \A n \in 1..MaxNodes : PollFairness(n)

\* ------------------------------------------------------------- properties
Count(s, x) == Cardinality({i \in DOMAIN s : s[i] = x})

\* The entries of want occur in s in that order (not necessarily adjacent).
RECURSIVE InOrderFrom(_, _, _, _)
InOrderFrom(s, want, i, k) ==
  IF k > Len(want) THEN TRUE
  ELSE IF i > Len(s) THEN FALSE
  ELSE IF s[i] = want[k] THEN InOrderFrom(s, want, i + 1, k + 1)
  ELSE InOrderFrom(s, want, i + 1, k)

InOrder(s, want) == InOrderFrom(s, want, 1, 1)

StartAnsweredOk == \E i \in DOMAIN replies : replies[i] = StartReply("Ok")

\* No Terminate has been or is still to be received.
NoTerminate == running /\ \A i \in DOMAIN receiver : receiver[i].type # "Terminate"

EndAfterStart ==
  \A i \in DOMAIN events : events[i] = "End" => \E j \in 1..(i - 1) : events[j] = "Start"

\* C1: in the minimal process (one StartEvent, one unconditional sequence flow,
\* one EndEvent), End is never on the event bus before Start, and once a Start
\* request has been answered Ok (and no Terminate stops the loop) the bus
\* carries Start and, under fair scheduling of the loop, eventually End after it.
C1_StartThenEnd ==
  /\ [](process.name = "Minimal" => EndAfterStart)
  /\ (process.name = "Minimal" /\ StartAnsweredOk /\ NoTerminate)
       ~> InOrder(events, << "Start", "End" >>)

C1_Witness ==
  /\ process.name = "Minimal" /\ StartAnsweredOk
  /\ events = << "Start", "End" >>

\* Nothing is left to happen: no request waits and no node is queued for a poll.
Quiescent == running /\ receiver = <<>> /\ ready = {}

\* C2: in the minimal process, after Start the log carries
\* FlowNodeIncoming{end, 0}, then FlowNodeCompleted{end}, then Done: stated on
\* the runs that have come to rest after a Start answered Ok.
C2_IncomingCompletedDone ==
  (process.name = "Minimal" /\ StartAnsweredOk /\ Quiescent)
    => InOrder(log, << FlowNodeIncoming(2, 0), FlowNodeCompleted(2), Done >>)

\* C3: every Start request received is answered, NoStartEvent exactly when no
\* flow element of the process is a StartEvent and Ok otherwise, and the event
\* bus holds exactly one Start per Ok answer (so none for NoStartEvent, and
\* none broadcast at any other time).
C3_StartGate ==
  LET starts == {i \in DOMAIN handled : handled[i].type = "Start"}
      answers == {i \in DOMAIN replies : replies[i].to = "Start"}
      noStartEvent == \A i \in DOMAIN process.nodes : process.nodes[i].kind # "StartEvent"
  IN /\ Cardinality(answers) = Cardinality(starts)
     /\ \A i \in answers :
          replies[i].value = IF noStartEvent THEN "NoStartEvent" ELSE "Ok"
     /\ Count(events, "Start") = Cardinality({i \in answers : replies[i].value = "Ok"})

C3_Witness ==
  /\ \A i \in DOMAIN process.nodes : process.nodes[i].kind # "StartEvent"
  /\ Count(replies, StartReply("NoStartEvent")) = 2
  /\ events = <<>>

\* The sequence flow behind position k of a Flow or Probe action of node n.
EdgeAt(n, action, k) == process.nodes[n].outgoings[action.indices[k] + 1]

FlowOf(edge) == CHOOSE f \in process.flows : f.id = edge

Known(edge) == \E f \in process.flows : f.id = edge

\* A guard that lets the flow through: no condition, or one evaluating to true.
GuardHolds(edge) == FlowOf(edge).cond \in {"none", "nocontent", "true"}

CallsOn(calls, t, op, edge) ==
  {i \in DOMAIN calls : calls[i].node = t /\ calls[i].op = op /\ calls[i].edge = edge}

\* C4: after a Flow(indices) applied on node n, for every position of indices
\* whose guard is true, every node of the process whose id is the edge's
\* target_ref has received one incoming(k) call for that edge per firing, with
\* k the position of the edge in its incomings.
C4_EveryTargetReceivesIncoming ==
  (last.branch = "data" /\ ~last.drop /\ last.action.type = "Flow") =>
    \A k \in DOMAIN last.action.indices :
      LET edge == EdgeAt(last.node, last.action, k)
          firings == {j \in DOMAIN last.action.indices :
                        EdgeAt(last.node, last.action, j) = edge}
      IN (Known(edge) /\ GuardHolds(edge)) =>
           \A t \in Nodes :
             process.nodes[t].id = FlowOf(edge).target_ref =>
               /\ Cardinality(CallsOn(last.calls, t, "incoming", edge)) = Cardinality(firings)
               /\ \A i \in CallsOn(last.calls, t, "incoming", edge) :
                    last.calls[i].arg = Position(process.nodes[t].incomings, edge)

\* The values passed to tokens() on node n, in order.
TokensPassed(calls, n) ==
  LET IsTokens(c) == c.op = "tokens" /\ c.node = n
      picked == SelectSeq(calls, IsTokens)
  IN [i \in DOMAIN picked |-> picked[i].arg]

NonDecreasing(s) == \A i \in 1..(Len(s) - 1) : s[i] <= s[i + 1]

\* C5: no loop turn decreases a node's token counter (being taken out of the
\* set and pushed back included), and the values passed to its tokens() only
\* grow: each is at least the counter before the turn and the last of a turn
\* is the counter after it.
C5_TokensNeverDecrease ==
  [][\A n \in DOMAIN tokens :
       /\ tokens'[n] >= tokens[n]
       /\ (\E m \in 1..MaxNodes : DataBranch(m)) =>
            LET seen == << tokens[n] >> \o TokensPassed(last'.calls, n)
            IN NonDecreasing(seen) /\ seen[Len(seen)] = tokens'[n]]_vars

C5_Witness ==
  /\ last.branch = "data" /\ last.rescheduled
  /\ tokens[last.node] >= 2

\* C6: Done is logged at most once, only with the flow-node set empty, and no
\* FlowNodeCompleted (nor anything else) follows it in the log.
C6_DoneOnceWhenEmpty ==
  /\ Count(log, Done) <= 1
  /\ \A i \in DOMAIN log :
       log[i] = Done => /\ flow_nodes = {}
                        /\ \A j \in (i + 1)..Len(log) : log[j].type # "FlowNodeCompleted"

C6_Witness == Count(log, Done) = 1 /\ last.branch = "empty"

\* The handle of the most recent JoinHandle among requests, 0 when none.
LatestHandle(requests) ==
  LET joins == {i \in DOMAIN requests : requests[i].type = "JoinHandle"}
  IN IF joins = {} THEN 0
     ELSE requests[CHOOSE i \in joins : \A j \in joins : j <= i].handle

TerminateAnswers == {i \in DOMAIN replies : replies[i].to = "Terminate"}

\* C7: requests are received in arrival order; a received Terminate is answered
\* exactly once, with the handle of the most recent JoinHandle received before
\* it (None when there was none), and ends the loop; from then on nothing is
\* logged and no process event is broadcast.
C7_TerminateRepliesAndExits ==
  /\ [](/\ running <=> \A i \in DOMAIN handled : handled[i].type # "Terminate"
        /\ Cardinality(TerminateAnswers) = Count(handled, TerminateRequest)
        /\ \A i \in DOMAIN handled :
             handled[i].type = "Terminate" =>
               /\ i = Len(handled)
               /\ LET h == LatestHandle(SubSeq(handled, 1, i - 1))
                  IN replies[Len(replies)] =
                       [to |-> "Terminate", value |-> IF h = 0 THEN "None" ELSE "Some",
                        handle |-> h])
  /\ [][/\ handled' \o receiver' = handled \o receiver
        /\ ~running' => (log' = log /\ events' = events)]_vars

C7_Witness ==
  /\ ~running
  /\ handled = << JoinHandleRequest(1), JoinHandleRequest(2), TerminateRequest >>
  /\ replies = << [to |-> "Terminate", value |-> "Some", handle |-> 2] >>

HookCalls(calls) == {i \in DOMAIN calls : calls[i].op = "handle_outgoing_action"}

\* C8: when a predecessor's handle_outgoing_action returns none for the action
\* of node n, that is the last hook call of the turn (hooks are called in the
\* order of n's incomings, none for a later edge), and the action has no
\* effect: nothing is logged, no tokens change and no incoming, tokens or
\* sequence_flow call is made.
C8_DroppedActionHasNoEffect ==
  [][\A n \in 1..MaxNodes :
       (DataBranch(n) /\ \E i \in HookCalls(last'.calls) : ~last'.calls[i].flag) =>
         LET calls == last'.calls
             where(i) == Position(process.nodes[n].incomings, calls[i].edge)
         IN /\ HookCalls(calls) = DOMAIN calls
            /\ \A i \in DOMAIN calls : calls[i].flag <=> i < Len(calls)
            /\ \A i \in DOMAIN calls : \A j \in DOMAIN calls : i < j => where(i) < where(j)
            /\ log' = log
            /\ tokens' = tokens
            /\ \A t \in DOMAIN node : t # n => node'[t] = node[t]]_vars

C8_Witness ==
  /\ last.branch = "data" /\ last.drop
  /\ last.item = Flow(<<0>>)
  /\ Len(last.calls) = 1
  /\ process.nodes[last.node].incomings = << "px", "qx", "gone" >>
  /\ {1, 2} \subseteq flow_nodes

\* The edge a FlowNodeIncoming entry was logged for.
EdgeOfEntry(entry) == process.nodes[entry.node].incomings[entry.incoming_index + 1]

\* C9: a Flow over an edge whose guard is false or fails to evaluate delivers
\* nothing over that edge (no FlowNodeIncoming, no tokens or incoming call, and
\* no tokens change at all when every fired edge is blocked); each failed
\* evaluation logs exactly one ExpressionError, a false one none.  So with a
\* false or failing guard between start and end, End and Done never appear.
C9_BlockedEdgeDeliversNothing ==
  /\ [][\A n \in 1..MaxNodes :
          (DataBranch(n) /\ ~last'.drop /\ last'.action.type \in {"Flow", "ProbeOutgoingSequenceFlows"}) =>
            LET act == last'.action
                added == SubSeq(log', Len(log) + 1, Len(log'))
                evaluated == {k \in DOMAIN act.indices : Known(EdgeAt(n, act, k))}
                passing == {k \in evaluated : GuardHolds(EdgeAt(n, act, k))}
                failing == {k \in evaluated : FlowOf(EdgeAt(n, act, k)).cond = "bad"}
                blocked == {EdgeAt(n, act, k) : k \in evaluated \ passing}
            IN /\ Count(added, ExpressionError) = Cardinality(failing)
               /\ \A i \in DOMAIN last'.calls :
                    last'.calls[i].op \in {"tokens", "incoming"} =>
                      last'.calls[i].edge \notin blocked
               /\ \A i \in DOMAIN added :
                    added[i].type = "FlowNodeIncoming" => EdgeOfEntry(added[i]) \notin blocked
               /\ passing = {} => tokens' = tokens]_vars
  /\ [](process.name \in {"GuardFalse", "GuardError"} =>
          /\ \A i \in DOMAIN events : events[i] # "End"
          /\ \A i \in DOMAIN log : log[i].type \in {"ExpressionError", "FlowNodeCompleted"}
          /\ Count(log, ExpressionError) =
               IF process.name = "GuardError" /\ node[1].state # "Ready" THEN 1 ELSE 0
          /\ \A t \in DOMAIN tokens : tokens[t] = 0)

C9_Witness ==
  /\ last.branch = "data" /\ last.action = Flow(<<2, 3, 1>>)
  /\ Count(log, ExpressionError) = 1
  /\ tokens[2] = 3 /\ tokens[3] = 0

\* C10: set_state(get_state(x)) on an end event x in any of its states
\* succeeds and leaves x as it was, and get_state after set_state(EndEvent(s))
\* returns EndEvent(s).
C10_StateRoundTrip ==
  [][\A n \in 1..MaxNodes : \A value \in StateValues :
       SetState(n, value) =>
         /\ value = EndEventGetState(node[n]) =>
              snapshot'.result = "Ok" /\ node'[n] = node[n]
         /\ value.variant = "EndEvent" =>
              snapshot'.result = "Ok" /\ EndEventGetState(node'[n]) = value]_vars

C10_Witness ==
  /\ snapshot.op = "set_state" /\ snapshot.result = "Ok"
  /\ snapshot.before = "Done" /\ snapshot.value = [variant |-> "EndEvent", state |-> "Done"]
  /\ node[snapshot.node].state = "Done"
  /\ InOrder(events, << "Start", "End" >>)

\* C11: set_state on an end event with a state value of another node kind's
\* variant returns InvalidVariant and leaves the end event as it was.
C11_InvalidVariantKeepsState ==
  [][\A n \in 1..MaxNodes : \A value \in StateValues :
       (SetState(n, value) /\ value.variant # "EndEvent") =>
         /\ snapshot'.result = "InvalidVariant"
         /\ node'[n] = node[n]
         /\ EndEventGetState(node'[n]) = EndEventGetState(node[n])]_vars

C11_Witness ==
  /\ snapshot.op = "set_state" /\ snapshot.result = "InvalidVariant"
  /\ snapshot.value = [variant |-> "StartEvent", state |-> "Ready"]
  /\ snapshot.before = "Done" /\ node[snapshot.node].state = "Done"

\* The processes in which only start events emit Flow actions.
StartDriven == process.name \in {"Minimal", "GuardTrue", "TwoStarts", "SameId"}

IsStartEvent(n) == n \in Nodes /\ process.nodes[n].kind = "StartEvent"

\* C12: a Start received after a Start has already been broadcast adds one
\* Start event to the bus and changes nothing else of the run (log, tokens,
\* nodes, the set and its queue); a start event emits Flow only in Ready and
\* Complete only in Complete and never goes back, so it emits each at most
\* once however many Starts are sent; and where only start events emit Flow
\* no FlowNodeIncoming is logged twice.
C12_RepeatedStartOnlyRebroadcasts ==
  /\ [][(RecvStart /\ Count(events, "Start") >= 1) =>
          /\ events' = Append(events, "Start")
          /\ log' = log /\ tokens' = tokens /\ node' = node
          /\ flow_nodes' = flow_nodes /\ ready' = ready]_vars
  /\ [][\A n \in 1..MaxNodes :
          IsStartEvent(n) =>
            /\ (DataBranch(n) /\ last'.item.type = "Flow") =>
                  node[n].state = "Ready" /\ node'[n].state = "Complete"
            /\ (DataBranch(n) /\ last'.item.type = "Complete") =>
                  node[n].state = "Complete" /\ node'[n].state = "Done"
            /\ node[n].state = "Complete" => node'[n].state \in {"Complete", "Done"}
            /\ node[n].state = "Done" => node'[n].state = "Done"]_vars
  /\ [](StartDriven =>
          \A i \in DOMAIN log : \A j \in DOMAIN log :
            (log[i].type = "FlowNodeIncoming" /\ log[i] = log[j]) => i = j)

\* Start received three times, the last one after the start event's stream
\* has ended and its record has left the set: one FlowNodeIncoming, one token.
C12_Witness ==
  /\ process.name = "Minimal"
  /\ events = << "Start", "Start", "End", "Start" >>
  /\ last.branch = "control" /\ last.request = StartRequest
  /\ 1 \notin flow_nodes
  /\ Count(log, FlowNodeIncoming(2, 0)) = 1
  /\ tokens[2] = 1

\* Exactly one Start request is sent in the whole run.
OneStartSent == Count(handled \o receiver, StartRequest) = 1

\* C13: in the process of two start events flowing into one end event, with
\* one Start request, the end event's FlowNodeCompleted is logged and End is
\* broadcast at most once in every run, and exactly once when the run has come
\* to rest after the Start.
C13_EndCompletesExactlyOnce ==
  (process.name = "TwoStarts" /\ OneStartSent) =>
    /\ Count(log, FlowNodeCompleted(3)) <= 1
    /\ Count(events, "End") <= 1
    /\ (StartAnsweredOk /\ Quiescent) =>
          Count(log, FlowNodeCompleted(3)) = 1 /\ Count(events, "End") = 1

\* The token counter of record t (0 where the process has no such record).
TokensOf(t) == IF t \in DOMAIN tokens THEN tokens[t] ELSE 0

\* C14: in the two-starts process with one Start request the end event's
\* token counter never exceeds 2, reaches 2 once the Start has been answered
\* (under fair scheduling, no Terminate stopping the loop), and is observable
\* through the end event's get_state: a change of the counter shows as a
\* change of what get_state returns.
C14_TokensReachTwoObservably ==
  /\ []((process.name = "TwoStarts" /\ OneStartSent) => TokensOf(3) <= 2)
  /\ (process.name = "TwoStarts" /\ OneStartSent /\ StartAnsweredOk /\ NoTerminate)
       ~> (TokensOf(3) = 2)
  /\ [][IF process.name = "TwoStarts" /\ OneStartSent
        THEN tokens'[3] # tokens[3] =>
               EndEventGetState(node'[3]) # EndEventGetState(node[3])
        ELSE TRUE]_vars

IsEndEvent(n) == n \in Nodes /\ process.nodes[n].kind = "EndEvent"

\* C15: an end event in Done (it has broadcast End and emitted Complete) stays
\* in Done whatever incoming notifications and polls follow: every poll of it
\* returns Pending, emits no action and broadcasts nothing.
C15_EndEventIsTerminal ==
  [][\A n \in 1..MaxNodes :
       IF IsEndEvent(n) /\ node[n].state = "Done"
       THEN /\ node'[n].state = "Done"
            /\ ~DataBranch(n)
            /\ PollPending(n) => events' = events
       ELSE TRUE]_vars

\* C16 as stated: after the turn that handles an item of node n, n is back in
\* the set and queued, with the token count it had, unless the set is empty
\* and Done is logged in that turn; no node leaves the set while others remain.
C16_NodeBackUnlessDone ==
  [][/\ \A n \in 1..MaxNodes :
          DataBranch(n) =>
            \/ n \in flow_nodes' /\ n \in ready' /\ tokens'[n] = tokens[n]
            \/ flow_nodes' = {} /\ log' = Append(log, Done)
     /\ flow_nodes' # flow_nodes => flow_nodes' = {}]_vars

\* C16 as amended: a turn whose final control is Drop or Proceed with an
\* action puts n back (same record, the token count it had, queued for a
\* poll) and leaves the set as it was; a turn whose final control is Proceed
\* with no action (n's stream has ended, or a hook turned the action into
\* none) takes n out of the set, whatever else the set holds, and logs Done
\* exactly if the set is then empty.  The set changes in no other way.
C16_NodeBackUnlessNoAction ==
  [][/\ \A n \in 1..MaxNodes :
          DataBranch(n) =>
            IF last'.drop \/ last'.action.type # "None"
            THEN /\ flow_nodes' = flow_nodes /\ n \in flow_nodes'
                 /\ n \in ready' /\ tokens'[n] = tokens[n]
            ELSE /\ flow_nodes' = flow_nodes \ {n} /\ n \notin ready'
                 /\ tokens' = tokens
                 /\ log' = IF flow_nodes' = {} THEN Append(log, Done) ELSE log
     /\ flow_nodes' # flow_nodes =>
            \E n \in flow_nodes :
              /\ DataBranch(n) /\ ~last'.drop /\ last'.action.type = "None"
              /\ flow_nodes' = flow_nodes \ {n}]_vars

\* A start event's stream has ended and its record has left the set while the
\* end event's record remains.
C16_Witness ==
  /\ last.branch = "data" /\ ~last.rescheduled
  /\ last.item.type = "None" /\ last.action.type = "None"
  /\ IsStartEvent(last.node)
  /\ last.node \notin flow_nodes /\ flow_nodes # {}
  /\ Count(log, Done) = 0

\* The records that received an incoming call in a turn's calls.
Reached(calls) == {calls[i].node : i \in {j \in DOMAIN calls : calls[j].op = "incoming"}}

\* C17: when a Flow(indices) fires several edges, all with true guards, every
\* node it reaches has its token counter increased by Len(indices) in that
\* turn, and receives one tokens() call, carrying the new count.
C17_TokensIncreaseOncePerFlow ==
  [][\A n \in 1..MaxNodes :
       (/\ DataBranch(n) /\ ~last'.drop /\ last'.action.type = "Flow"
        /\ Len(last'.action.indices) >= 2
        /\ \A k \in DOMAIN last'.action.indices :
             Known(EdgeAt(n, last'.action, k)) /\ GuardHolds(EdgeAt(n, last'.action, k))) =>
         \A t \in Reached(last'.calls) :
           /\ tokens'[t] = tokens[t] + Len(last'.action.indices)
           /\ TokensPassed(last'.calls, t) = << tokens'[t] >>]_vars

\* The hook calls of a turn, in order.
HookCallSeq(calls) ==
  LET IsHook(c) == c.op = "handle_outgoing_action"
  IN SelectSeq(calls, IsHook)

\* What the hook call c handed back.
HookResult(c) == HandleOutgoingAction(process.nodes[c.node], c.arg, c.action)

\* C18: in the turn handling an item of node n, the hooks called are those of
\* the predecessors of n's incoming edges, in the order of n's incomings, one
\* per edge that some other record of the set lists among its outgoings
\* (up to a hook returning none) and none for an edge no record lists; each
\* is called with the edge's position in the predecessor's outgoings and with
\* the action the previous hook handed back (the emitted item for the first);
\* the action finally applied is what the last hook handed back, or the item
\* itself when no hook was called.
C18_SpliceThreadsHooksInOrder ==
  [][\A n \in 1..MaxNodes :
       DataBranch(n) =>
         LET hooks == HookCallSeq(last'.calls)
             incomings == process.nodes[n].incomings
             set == flow_nodes \ {n}
             listed == {k \in DOMAIN incomings :
                          \E m \in set : incomings[k] \in Range(process.nodes[m].outgoings)}
             where(i) == Position(incomings, hooks[i].edge) + 1
         IN /\ \A i \in DOMAIN hooks :
                 /\ hooks[i].node \in set
                 /\ where(i) \in listed
                 /\ process.nodes[hooks[i].node].outgoings[hooks[i].arg + 1] = hooks[i].edge
                 /\ hooks[i].arg = Position(process.nodes[hooks[i].node].outgoings, hooks[i].edge)
                 /\ hooks[i].action = IF i = 1 THEN last'.item ELSE HookResult(hooks[i - 1]).action
                 /\ hooks[i].flag = HookResult(hooks[i]).some
                 /\ i > 1 => where(i - 1) < where(i) /\ hooks[i - 1].flag
            /\ IF last'.drop
               THEN hooks # <<>> /\ ~hooks[Len(hooks)].flag
               ELSE /\ {where(i) : i \in DOMAIN hooks} = listed
                    /\ last'.action = IF hooks = <<>> THEN last'.item
                                      ELSE HookResult(hooks[Len(hooks)]).action]_vars

\* x emits Flow([0]); p's hook hands it on, q's hook (called with 1, the
\* position of qx in q's outgoings) turns it into Complete; the edge "gone"
\* has no predecessor; Complete is applied.
C18_Witness ==
  /\ last.branch = "data" /\ ~last.drop
  /\ process.nodes[last.node].incomings = << "px", "qx", "gone" >>
  /\ last.item = Flow(<<0>>) /\ last.action = Complete
  /\ Len(last.calls) = 2
  /\ last.calls[1].node = 1 /\ last.calls[1].arg = 0
  /\ last.calls[2].node = 2 /\ last.calls[2].arg = 1
  /\ log = << FlowNodeCompleted(last.node) >>

\* The positions of an action's indices whose outgoing is a sequence flow of
\* the model, in order.
KnownPositions(n, action) ==
  LET IsKnown(k) == Known(EdgeAt(n, action, k))
  IN SelectSeq([k \in DOMAIN action.indices |-> k], IsKnown)

\* C19: a ProbeOutgoingSequenceFlows(indices) applied on node n makes, for
\* each index naming a sequence flow of the model, in order and once each, a
\* sequence_flow(index, flow, success) call on n itself, success being the
\* guard's result; apart from the hooks of the splice no other call is made,
\* no FlowNodeIncoming is logged (a failing guard logs ExpressionError), no
\* tokens and no other node change, and n is back in the set, queued.
C19_ProbeReportsAndDeliversNothing ==
  [][\A n \in 1..MaxNodes :
       (DataBranch(n) /\ ~last'.drop
          /\ last'.action.type = "ProbeOutgoingSequenceFlows") =>
         LET act == last'.action
             IsReport(c) == c.op = "sequence_flow"
             reports == SelectSeq(last'.calls, IsReport)
             positions == KnownPositions(n, act)
             added == SubSeq(log', Len(log) + 1, Len(log'))
         IN /\ Len(reports) = Len(positions)
            /\ \A i \in DOMAIN reports :
                 /\ reports[i].node = n
                 /\ reports[i].arg = act.indices[positions[i]]
                 /\ reports[i].edge = EdgeAt(n, act, positions[i])
                 /\ reports[i].flag = GuardHolds(reports[i].edge)
            /\ \A i \in DOMAIN last'.calls :
                 last'.calls[i].op \in {"handle_outgoing_action", "sequence_flow"}
            /\ \A i \in DOMAIN added : added[i] = ExpressionError
            /\ tokens' = tokens
            /\ \A t \in DOMAIN node : t # n => node'[t] = node[t]
            /\ flow_nodes' = flow_nodes /\ n \in flow_nodes' /\ n \in ready']_vars

\* g probes e3 (failing guard), e2 (false), e0 (no condition) and the
\* outgoing that names no flow: three reports, false, false, true.
C19_Witness ==
  /\ last.branch = "data" /\ last.action = Probe(<<3, 2, 0, 4>>)
  /\ Len(last.calls) = 3
  /\ [i \in 1..3 |-> last.calls[i].arg] = <<3, 2, 0>>
  /\ [i \in 1..3 |-> last.calls[i].flag] = <<FALSE, FALSE, TRUE>>
  /\ Count(log, ExpressionError) = 2
  /\ last.rescheduled

\* Node n's record is queued and its next poll yields an item.
ActionReady(n) ==
  IF n \in Nodes
  THEN running /\ n \in ready /\ ~PollNext(process.nodes[n], node[n]).pending
  ELSE FALSE

\* C20: a turn that finds the control inbox closed changes nothing of the run
\* and does not end the loop; once the inbox is closed the loop never ends;
\* and (under fair scheduling) a node with an item ready after such a turn
\* eventually has it handled.
C20_ClosedInboxIsNoMessage ==
  /\ [][RecvNone =>
          /\ running'
          /\ UNCHANGED << process, receiver, closed, join_handle, flow_nodes, ready,
                          tokens, node, log, events, replies, handled, snapshot >>]_vars
  /\ [][(closed /\ running) => (closed' /\ running')]_vars
  /\ \A n \in 1..MaxNodes :
       (last.branch = "closed" /\ ActionReady(n))
         ~> (last.branch = "data" /\ last.node = n)

\* The inbox was found closed right after the Start was received, with the
\* start event's Flow still to come.
C20_Witness ==
  /\ closed /\ running /\ last.branch = "closed"
  /\ process.name = "Minimal" /\ StartAnsweredOk
  /\ ActionReady(1) /\ log = <<>>

\* A Terminate request waits in the control inbox.
TerminatePending == \E i \in DOMAIN receiver : receiver[i].type = "Terminate"

\* C21: under fair choice of the control branch a Terminate request waiting in
\* the inbox is eventually answered and the loop returns, also while a node
\* has an action ready at every turn; the loop returns only with the answer
\* sent, the inbox drained up to the Terminate.
C21_TerminateEventuallyExits ==
  /\ TerminatePending ~> (~running /\ Cardinality(TerminateAnswers) = 1)
  /\ [](~running => (Cardinality(TerminateAnswers) = 1 /\ ~TerminatePending))

\* The loop has returned on the third request while the busy node, polled
\* between the requests, still has an action ready.
C21_Witness ==
  /\ process.name = "Busy" /\ ~running
  /\ Len(handled) = 3 /\ handled[3] = TerminateRequest
  /\ replies[Len(replies)].to = "Terminate"
  /\ node[1].pos = 1 /\ 1 \in ready

\* C22: the readiness mux holds at most one record of each flow node, a record
\* exactly for the nodes of the set, polls are pending only for records the
\* mux holds, and so it never holds more records than the flow nodes created
\* at construction.
C22_OneRecordPerNode ==
  /\ \A n \in Nodes : records[n] = IF n \in flow_nodes THEN 1 ELSE 0
  /\ ready \subseteq flow_nodes
  /\ flow_nodes \subseteq NewFlowNodes(process)
  /\ Cardinality(flow_nodes) <= Len(process.nodes)

\* Every node of the two-starts process has been handled and pushed back at
\* least once (the start events twice), and the end event is still held.
C22_Witness ==
  /\ process.name = "TwoStarts"
  /\ Count(log, FlowNodeCompleted(1)) = 1 /\ Count(log, FlowNodeCompleted(2)) = 1
  /\ Count(log, FlowNodeCompleted(3)) = 1
  /\ last.branch = "data" /\ last.rescheduled
  /\ records[last.node] = 1

\* The log holds a FlowNodeIncoming entry for node n.
HasIncoming(n) ==
  \E j \in DOMAIN log : log[j].type = "FlowNodeIncoming" /\ log[j].node = n

\* Every FlowNodeCompleted of an end event follows a FlowNodeIncoming of it,
\* an end event without one is Ready, and an End on the bus means that some
\* end event has had one.
EndCausality ==
  /\ \A n \in 1..MaxNodes :
       IF IsEndEvent(n)
       THEN /\ \A i \in DOMAIN log :
                 log[i] = FlowNodeCompleted(n) =>
                   \E j \in 1..(i - 1) :
                     log[j].type = "FlowNodeIncoming" /\ log[j].node = n
            /\ ~HasIncoming(n) => node[n].state = "Ready"
       ELSE TRUE
  /\ Count(events, "End") > 0 => \E n \in Nodes : IsEndEvent(n) /\ HasIncoming(n)

\* C23: every FlowNodeCompleted logged for an end event and every End it
\* broadcasts comes after a FlowNodeIncoming logged for that end event; End
\* is broadcast only in an end event's turn; an end event that has had no
\* incoming is Ready and each poll of it returns Pending, with nothing logged
\* or broadcast.
C23_EndFollowsIncoming ==
  /\ []EndCausality
  /\ [][/\ \A n \in 1..MaxNodes :
            IF IsEndEvent(n) /\ ~HasIncoming(n)
            THEN /\ ~DataBranch(n)
                 /\ PollPending(n) =>
                      (events' = events /\ log' = log /\ node'[n].state = "Ready")
            ELSE TRUE
        /\ events' # events /\ Len(events') > 0 /\ events'[Len(events')] = "End" =>
             \E n \in Nodes : IsEndEvent(n) /\ HasIncoming(n) /\ DataBranch(n)]_vars

\* The end event of the minimal process has just completed, after its
\* incoming; and, in the same run, the log shows the order.
C23_Witness ==
  /\ process.name = "Minimal"
  /\ last.branch = "data" /\ last.node = 2 /\ last.action = Complete
  /\ events = << "Start", "End" >>
  /\ InOrder(log, << FlowNodeIncoming(2, 0), FlowNodeCompleted(2) >>)

====
